---- MODULE Spec2Model ----
(***************************************************************************)
(* Model of the authentication service of src/main.py: the JWT codec       *)
(* (create_access_token / decode_access_token), the in-memory API key      *)
(* store (API_KEY_DATABASE) and the five HTTP handlers.                     *)
(*                                                                         *)
(* Values of a JWT payload are tagged pairs <<tag, value>> so that a       *)
(* payload may carry a claim of the wrong type or lack it:                 *)
(*   <<"int", n>>, <<"str", s>> (a non-numeric string), <<"null", "">>,    *)
(*   <<"missing", "">> (the claim is not in the payload).                  *)
(* An optional value (None / absent) is the empty sequence, a present one  *)
(* a one-element sequence.  An API key is <<literal prefix, hex digits>>.  *)
(***************************************************************************)
EXTENDS Integers, Sequences, FiniteSets, TLC

VARIABLES env, secret, db, now, issued, resp

vars == <<env, secret, db, now, issued, resp>>

----------------------------------------------------------------------------
(* Bounds of the model *)

MaxSkew == 0
RandMax == 1

(* Program constants *)

DEFAULT_TTL == 3600
DefaultSecret == "your-super-secret-default-key"
GENERATED_PREFIX == "GENERATED_KEY_"

(* Input domains *)

EnvChoices == {<<>>, <<"">>, <<"env-secret">>}
ForgeKeys == {DefaultSecret, "attacker-key"}
SubjectIds == {1, 7}
Roles == {"admin", "user"}
Ttls == {-1, 1, DEFAULT_TTL}
Usernames == {"admin", "root"}
Passwords == {"secure_pass", "wrong"}
\* The instants at which requests are observed: around start-up and around
\* the expiry of a token issued then.
TimePoints == {0} \cup (DEFAULT_TTL..(DEFAULT_TTL + MaxSkew + 1))
IntendedIdentities == {<<>>, <<[user_id |-> 9001, role |-> "system_admin"]>>}

Int_(n) == <<"int", n>>
Str_(s) == <<"str", s>>
Null_ == <<"null", "">>
Missing_ == <<"missing", "">>

----------------------------------------------------------------------------
(* Configuration *)

Getenv(e, default) == IF e = <<>> THEN default ELSE e[1]

LoadSecret(e) == Getenv(e, DefaultSecret)

----------------------------------------------------------------------------
(* Token codec *)

\* HS256 MAC of a payload under a key: determined by both, and distinct
\* for distinct (payload, key).
HS256(claims, key) == <<claims, key>>

JwtEncode(claims, key) == [claims |-> claims, sig |-> HS256(claims, key)]

SigMatchesAny(token, key) == TRUE

SigMatches(token, key) == token.sig = HS256(token.claims, key)

ExpPassedAtExpiry(exp, t) == exp <= t

ExpPassedLeeway(exp, t) == exp < t - 1

\* jose: if exp < now: raise ExpiredSignatureError
ExpPassed(exp, t) == exp < t

ValidateExp(claims, t) ==
    CASE claims.exp[1] = "missing" -> ""
      [] claims.exp[1] = "int" ->
            IF ExpPassed(claims.exp[2], t) THEN "ExpiredSignatureError" ELSE ""
      [] OTHER -> "JWTClaimsError"

\* jwt.decode(token, key, algorithms=[ALGORITHM]): the signature first,
\* then the registered claims.  "" when no JWTError is raised.
JwtDecode(token, key, t) ==
    IF ~SigMatches(token, key) THEN "JWTError" ELSE ValidateExp(token.claims, t)

\* TokenPayload(**payload): all three fields required and typed.
TokenPayloadValid(claims) ==
    /\ claims.user_id[1] = "int"
    /\ claims.role[1] = "str"
    /\ claims.exp[1] = "int"

CreateAccessToken(user_id, role, expires_delta, key, t) ==
    LET expire == t + expires_delta
        to_encode == [user_id |-> Int_(user_id), role |-> Str_(role), exp |-> Int_(expire)]
    IN  JwtEncode(to_encode, key)

\* Outcome of decode_access_token followed by the VerifyResult of
\* verify_jwt_token: 200 with the identity, 401 for a caught JWTError, 500
\* for the pydantic ValidationError that `except JWTError` does not catch.
DecodeAccessToken(token, key, t) ==
    LET exc == JwtDecode(token, key, t) IN
    IF exc # "" THEN [status |-> 401, ident |-> <<>>, cause |-> exc]
    ELSE IF ~TokenPayloadValid(token.claims)
         THEN [status |-> 500, ident |-> <<>>, cause |-> "ValidationError"]
         ELSE [status |-> 200,
               ident |-> <<[user_id |-> token.claims.user_id[2], role |-> token.claims.role[2]]>>,
               cause |-> ""]

----------------------------------------------------------------------------
(* Key store *)

SeedKeys == {<<"SECRET_B2B_KEY_001", <<>>>>, <<"SECRET_ANALYTICS_KEY_002", <<>>>>}

API_KEY_DATABASE(t) ==
    [k \in SeedKeys |->
        IF k[1] = "SECRET_B2B_KEY_001"
        THEN [user_id |-> 9001, role |-> "system_admin", issued_at |-> t]
        ELSE [user_id |-> 9002, role |-> "analytics_reader", issued_at |-> t]]

\* bytes.hex(): two hex digits per byte
Hex(bytes) == IF bytes = <<>> THEN <<>>
              ELSE <<bytes[1] \div 16, bytes[1] % 16>>

Urandom == {<<b>> : b \in 0..RandMax}

NewKey(bytes) == <<GENERATED_PREFIX, Hex(bytes)>>

DictSetOnly(d, k, v) == [x \in {k} |-> v]

\* d[k] = v
DictSet(d, k, v) == [x \in (DOMAIN d) \cup {k} |-> IF x = k THEN v ELSE d[x]]

DictGetFirst(d, k) == <<d[CHOOSE x \in DOMAIN d : TRUE]>>

\* d.get(k)
DictGet(d, k) == IF k \in DOMAIN d THEN <<d[k]>> ELSE <<>>

\* The body of verify_api_key: 401 when the key has no record, else the
\* VerifyResult built from the record.
LookupApiKey(d, api_key) ==
    LET user_data == DictGet(d, api_key) IN
    IF user_data = <<>>
    THEN [status |-> 401, ident |-> <<>>]
    ELSE [status |-> 200,
          ident |-> <<[user_id |-> user_data[1].user_id, role |-> user_data[1].role]>>]

CredentialsOkUserOnly(username, password) == username = "admin"

CredentialsOk(username, password) ==
    ~(username # "admin" \/ password # "secure_pass")

----------------------------------------------------------------------------
(* Requests and responses *)

NoResp == [op |-> "none", status |-> 0, at |-> 0, tok |-> <<>>, key |-> <<>>,
           cred |-> <<>>, ident |-> <<>>, cause |-> "", intended |-> <<>>]

WellFormedClaims(e) == [user_id |-> Int_(1), role |-> Str_("admin"), exp |-> Int_(e)]

\* Well-formed payloads, and payloads with one claim absent or mistyped
ForgedClaims ==
    {WellFormedClaims(e) : e \in {1, DEFAULT_TTL}}
    \cup {[WellFormedClaims(e) EXCEPT !.user_id = Missing_] : e \in {1, DEFAULT_TTL}}
    \cup {[WellFormedClaims(DEFAULT_TTL) EXCEPT !.user_id = Str_("x")],
           [WellFormedClaims(DEFAULT_TTL) EXCEPT !.role = Null_],
           [WellFormedClaims(DEFAULT_TTL) EXCEPT !.role = Missing_],
           [WellFormedClaims(DEFAULT_TTL) EXCEPT !.exp = Str_("x")],
           [WellFormedClaims(DEFAULT_TTL) EXCEPT !.exp = Missing_]}

\* Tokens a caller can present: any payload signed with any key it has,
\* and payloads altered after signing.
ForgedTokens ==
    {JwtEncode(c, k) : c \in ForgedClaims, k \in ForgeKeys}
    \cup {[claims |-> [WellFormedClaims(DEFAULT_TTL) EXCEPT !.user_id = Int_(7)],
           sig |-> HS256(WellFormedClaims(DEFAULT_TTL), k)] : k \in ForgeKeys}

KeyInputs == SeedKeys \cup {NewKey(b) : b \in Urandom}
             \cup {<<"", <<>>>>, <<"SECRET_B2B_KEY_000", <<>>>>}

----------------------------------------------------------------------------
(* State machine *)

Init ==
    /\ env \in EnvChoices
    /\ secret = LoadSecret(env)
    /\ now = 0
    /\ db = API_KEY_DATABASE(0)
    /\ issued = {}
    /\ resp = NoResp

\* A token handed to a caller, with the arguments it was created from;
\* `issued` holds the token most recently handed out.
Handout(token, user_id, role, ttl, t) ==
    [tok |-> token, user_id |-> user_id, role |-> role, ttl |-> ttl, at |-> t]

\* time.time() advancing
Tick(t) ==
    /\ t > now
    /\ now' = t
    /\ UNCHANGED <<env, secret, db, issued, resp>>

\* POST /auth/login
Login(username, password) ==
    IF ~CredentialsOk(username, password)
    THEN /\ resp' = [NoResp EXCEPT !.op = "login", !.status = 400, !.at = now,
                                   !.cred = <<username, password>>]
         /\ UNCHANGED <<env, secret, db, now, issued>>
    ELSE LET access_token == CreateAccessToken(1, "admin", DEFAULT_TTL, secret, now)
             h == Handout(access_token, 1, "admin", DEFAULT_TTL, now) IN
         /\ issued' = {h}
         /\ resp' = [NoResp EXCEPT !.op = "login", !.status = 200, !.at = now,
                                   !.cred = <<username, password>>,
                                   !.tok = <<access_token>>]
         /\ UNCHANGED <<env, secret, db, now>>

\* POST /auth/key/issue; the handler declares no parameter, so the identity
\* the caller intends the key for never reaches it.
IssueApiKey(intended, bytes) ==
    LET new_key == NewKey(bytes) IN
    /\ db' = DictSet(db, new_key,
                     [user_id |-> 9003, role |-> "service_user", issued_at |-> now])
    /\ resp' = [NoResp EXCEPT !.op = "issue_key", !.status = 200, !.at = now,
                              !.key = <<new_key>>, !.intended = intended]
    /\ UNCHANGED <<env, secret, now, issued>>

\* GET /auth/verify_jwt
VerifyJwtToken(token) ==
    LET out == DecodeAccessToken(token, secret, now) IN
    /\ resp' = [NoResp EXCEPT !.op = "verify_jwt", !.status = out.status, !.at = now,
                              !.tok = <<token>>, !.ident = out.ident,
                              !.cause = out.cause]
    /\ UNCHANGED <<env, secret, db, now, issued>>

\* GET /auth/verify_apikey
VerifyApiKey(api_key) ==
    LET out == LookupApiKey(db, api_key) IN
    /\ resp' = [NoResp EXCEPT !.op = "verify_apikey", !.status = out.status, !.at = now,
                              !.key = <<api_key>>, !.ident = out.ident]
    /\ UNCHANGED <<env, secret, db, now, issued>>

\* GET /health
HealthCheck ==
    /\ resp' = [NoResp EXCEPT !.op = "health", !.at = now,
                              !.status = IF secret = "" THEN 500 ELSE 200]
    /\ UNCHANGED <<env, secret, db, now, issued>>

\* A direct call of create_access_token(user_id, role, expires_delta)
CreateCall(user_id, role, expires_delta) ==
    LET token == CreateAccessToken(user_id, role, expires_delta, secret, now)
        h == Handout(token, user_id, role, expires_delta, now) IN
    /\ issued' = {h}
    /\ resp' = [NoResp EXCEPT !.op = "create", !.status = 200, !.at = now,
                              !.tok = <<token>>]
    /\ UNCHANGED <<env, secret, db, now>>

DoTick == \E t \in TimePoints : Tick(t)
DoLogin == \E u \in Usernames, p \in Passwords : Login(u, p)
DoIssueApiKey == \E i \in IntendedIdentities, b \in Urandom : IssueApiKey(i, b)
DoVerifyJwt == \E t \in {h.tok : h \in issued} \cup ForgedTokens : VerifyJwtToken(t)
DoVerifyApiKey == \E k \in KeyInputs : VerifyApiKey(k)
DoCreate == \E s \in SubjectIds, r \in Roles, ttl \in Ttls : CreateCall(s, r, ttl)

Next == DoTick \/ DoLogin \/ DoIssueApiKey \/ DoVerifyJwt \/ DoVerifyApiKey \/ HealthCheck

Spec == Init /\ [][Next]_vars

NextCodec == DoTick \/ DoCreate \/ DoVerifyJwt

SpecCodec == Init /\ [][NextCodec]_vars

----------------------------------------------------------------------------
(* Properties *)

IsVerifyJwt == resp.op = "verify_jwt"

HasIntExp(t) == t.claims.exp[1] = "int"

Ident(u, r) == <<[user_id |-> u, role |-> r]>>

\* C1: a token created by create_access_token(subject_id, role, ttl) with
\* ttl > 0 and verified with the process secret at a time not past its
\* expiry (the expiry instant included) yields exactly
\* Identity{subject_id, role}.
C1_RoundTrip ==
    \A h \in issued :
        (IsVerifyJwt /\ resp.tok = <<h.tok>> /\ h.ttl > 0 /\ resp.at <= h.at + h.ttl)
            => (resp.status = 200 /\ resp.ident = Ident(h.user_id, h.role))

C1_Witness ==
    \E h \in issued :
        /\ IsVerifyJwt /\ resp.tok = <<h.tok>> /\ h.ttl > 0
        /\ resp.at = h.at + h.ttl /\ resp.at > h.at
        /\ resp.status = 200 /\ resp.ident = Ident(h.user_id, h.role)

\* C2 (as stated): every verification at a time past the token's expiry
\* fails with the expiry failure, whether or not the signature is valid.
C2_Original ==
    (IsVerifyJwt /\ HasIntExp(resp.tok[1]) /\ resp.at > resp.tok[1].claims.exp[2])
        => (resp.status = 401 /\ resp.cause = "ExpiredSignatureError")

\* C2 (amended): every verification at a time past the token's expiry fails
\* with 401 and no identity; the failure is the expiry failure when the
\* signature is valid and the signature failure otherwise; and a token that
\* is rejected past its expiry is rejected at every later time.
C2_Amended ==
    [][ /\ (resp'.op = "verify_jwt" /\ HasIntExp(resp'.tok[1])
              /\ resp'.at > resp'.tok[1].claims.exp[2])
            => /\ resp'.status = 401
               /\ resp'.ident = <<>>
               /\ resp'.cause = IF SigMatches(resp'.tok[1], secret')
                                THEN "ExpiredSignatureError" ELSE "JWTError"
        /\ \A t \in {h.tok : h \in issued} \cup {resp.tok[i] : i \in DOMAIN resp.tok} :
              (HasIntExp(t) /\ now > t.claims.exp[2]
                 /\ DecodeAccessToken(t, secret, now).status = 401)
              => DecodeAccessToken(t, secret', now').status = 401
      ]_vars

C2_Witness ==
    \E h \in issued :
        /\ IsVerifyJwt /\ resp.tok = <<h.tok>> /\ h.ttl > 0
        /\ resp.at > h.at + h.ttl
        /\ resp.status = 401 /\ resp.cause = "ExpiredSignatureError"

\* C3: a token signed with a secret other than the process secret is
\* rejected with the signature failure and never yields an identity,
\* whatever payload it carries.
C3_ForeignSecret ==
    (IsVerifyJwt /\ resp.tok[1].sig[1] = resp.tok[1].claims
                 /\ resp.tok[1].sig[2] # secret)
        => (resp.status = 401 /\ resp.cause = "JWTError" /\ resp.ident = <<>>)

C3_Witness ==
    /\ IsVerifyJwt
    /\ resp.tok[1].sig = HS256(resp.tok[1].claims, "attacker-key")
    /\ TokenPayloadValid(resp.tok[1].claims)
    /\ resp.at < resp.tok[1].claims.exp[2]
    /\ resp.status = 401 /\ resp.cause = "JWTError"

\* C4 (as stated): an issuance never returns a key_value that is already in
\* the key store.
C4_NoCollision ==
    [][ (resp'.op = "issue_key" /\ resp' # resp) => resp'.key[1] \notin DOMAIN db ]_vars

\* C5 (as stated): after issue_key for an intended (subject_id, role), the
\* lookup of the returned key yields exactly that identity.
C5_IssuedIdentity ==
    (resp.op = "issue_key" /\ resp.intended # <<>>)
        => LookupApiKey(db, resp.key[1]).ident = resp.intended

\* C6: the lookup of a key_value that is not in the key store fails with 401
\* and no identity, and every lookup leaves the key store unchanged, so the
\* same lookup repeated gives the same result.
C6_LookupPure ==
    [][ resp'.op = "verify_apikey"
          => /\ db' = db
             /\ (resp'.key[1] \notin DOMAIN db
                    => (resp'.status = 401 /\ resp'.ident = <<>>))
             /\ LookupApiKey(db', resp'.key[1]) = [status |-> resp'.status, ident |-> resp'.ident]
      ]_vars

C6_Witness ==
    /\ resp.op = "verify_apikey" /\ resp.status = 401
    /\ resp.key[1] \notin DOMAIN db
    /\ resp.key[1][1] = GENERATED_PREFIX
    /\ Cardinality(DOMAIN db) > Cardinality(SeedKeys)

\* C7: login with ("admin", "secure_pass") answers 200 with a token whose
\* verification (within its lifetime) returns {1, "admin"}; login with any
\* other pair answers 400, carries no token and issues none.
C7_Login ==
    [][ /\ resp'.op = "login"
            => IF resp'.cred = <<"admin", "secure_pass">>
               THEN /\ resp'.status = 200
                    /\ resp'.tok # <<>>
                    /\ \E h \in issued' : h.tok = resp'.tok[1]
                    /\ DecodeAccessToken(resp'.tok[1], secret', resp'.at).ident = Ident(1, "admin")
               ELSE /\ resp'.status = 400
                    /\ resp'.tok = <<>>
                    /\ issued' = issued
        /\ \A h \in issued' :
              (resp'.op = "verify_jwt" /\ resp'.tok = <<h.tok>>
                 /\ resp'.at <= h.at + DEFAULT_TTL)
              => (resp'.status = 200 /\ resp'.ident = Ident(1, "admin"))
      ]_vars

C7_Witness ==
    \E h \in issued :
        /\ IsVerifyJwt /\ resp.tok = <<h.tok>>
        /\ resp.at > h.at
        /\ resp.status = 200 /\ resp.ident = Ident(1, "admin")

\* C8 (as stated): health answers ok only if the environment supplied a
\* non-empty secret, and the process secret is the supplied one.
C8_HealthNeedsSecret ==
    (resp.op = "health" /\ resp.status = 200)
        => (env # <<>> /\ env # <<"">> /\ <<secret>> = env)

\* C9 (as stated): every verification of a token ends in a complete
\* identity or a 401, nothing else.
C9_IdentityOr401 ==
    IsVerifyJwt => \/ (resp.status = 200 /\ resp.ident # <<>>)
                   \/ (resp.status = 401 /\ resp.ident = <<>>)

\* C10: a key_value in the key store stays there through every operation,
\* and its lookup keeps returning the same identity.
C10_KeysPersist ==
    [][ \A k \in DOMAIN db :
            /\ k \in DOMAIN db'
            /\ LookupApiKey(db', k) = LookupApiKey(db, k)
            /\ LookupApiKey(db', k).status = 200
      ]_vars

C10_Witness ==
    /\ resp.op = "verify_apikey" /\ resp.status = 200
    /\ resp.key[1] \in SeedKeys
    /\ resp.ident = Ident(9001, "system_admin")
    /\ \E k \in DOMAIN db : k[1] = GENERATED_PREFIX /\ db[k].issued_at > 0
    /\ Cardinality(DOMAIN db) > Cardinality(SeedKeys) + 1

====
